---------------------------- MODULE Spec2Model ----------------------------
(***************************************************************************)
(* A model of tuicker (src/main.rs): a terminal price ticker that sets up  *)
(* the terminal, fetches and parses one price response, converts it to a   *)
(* list of Coin records and then loops { draw, poll 100 ms, read key }     *)
(* until the key 'q' is read.                                              *)
(*                                                                         *)
(* Formatting, padding and upper-casing are computed character by          *)
(* character on strings.  An f64 is modelled as an integer count of       *)
(* 1/10000 units (fixed point): 11000.32 is 110003200, -0.05 is -500.      *)
(***************************************************************************)
EXTENDS Integers, Sequences, FiniteSets, TLC

(* ------------------------------ bounds --------------------------------- *)

\* Entries in the object of one price response.
MaxEntries == 2
\* Terminal events the user delivers during one run.
MaxEvents == 3
\* Polls that time out with no event available during one run.
MaxTimeouts == 2

(* ------------------------------- text ---------------------------------- *)

Lower == "abcdefghijklmnopqrstuvwxyz"

Upper == "ABCDEFGHIJKLMNOPQRSTUVWXYZ"

DigitChars == "0123456789"

\* The i-th character of s, as a one-character string.
CharAt(s, i) == SubSeq(s, i, i)

\* char::to_uppercase on the characters the identifiers are made of.
ToUpperChar(c) ==
    IF \E i \in 1..Len(Lower) : CharAt(Lower, i) = c
    THEN CharAt(Upper, CHOOSE i \in 1..Len(Lower) : CharAt(Lower, i) = c)
    ELSE c

RECURSIVE to_uppercase(_)
\* str::to_uppercase
to_uppercase(s) ==
    IF Len(s) = 0 THEN ""
    ELSE ToUpperChar(CharAt(s, 1)) \o to_uppercase(Tail(s))

RECURSIVE Spaces(_)
Spaces(n) == IF n <= 0 THEN "" ELSE " " \o Spaces(n - 1)

\* "{:w}" on a string: left-aligned, padded with spaces, never truncated.
PadRight(s, w) == IF Len(s) >= w THEN s ELSE s \o Spaces(w - Len(s))

\* "{:>w}": right-aligned, padded with spaces, never truncated.
PadLeft(s, w) == IF Len(s) >= w THEN s ELSE Spaces(w - Len(s)) \o s

RECURSIVE Digits(_)
\* The decimal digits of a natural number.
Digits(n) ==
    IF n < 10 THEN CharAt(DigitChars, n + 1)
    ELSE Digits(n \div 10) \o CharAt(DigitChars, (n % 10) + 1)

Abs(x) == IF x < 0 THEN -x ELSE x

\* A magnitude (in 1/10000) rounded to hundredths, ties to even.
RoundHundredths(m) ==
    LET q == m \div 100
        r == m % 100
    IN  IF r > 50 \/ (r = 50 /\ q % 2 = 1) THEN q + 1 ELSE q

\* "{:.2}" (plus = FALSE) and "{:+.2}" (plus = TRUE) on an f64.
FormatFixed2(x, plus) ==
    LET q    == RoundHundredths(Abs(x))
        sign == IF x < 0 THEN "-" ELSE IF plus THEN "+" ELSE ""
    IN  sign \o Digits(q \div 100) \o "."
             \o CharAt(DigitChars, ((q % 100) \div 10) + 1)
             \o CharAt(DigitChars, (q % 10) + 1)

RECURSIVE Join(_, _)
\* [String]::join(sep)
Join(lines, sep) ==
    IF Len(lines) = 0 THEN ""
    ELSE IF Len(lines) = 1 THEN lines[1]
    ELSE lines[1] \o sep \o Join(Tail(lines), sep)

RECURSIVE SplitLines(_)
\* The lines of a painted text: the empty text has none.
SplitLines(text) ==
    IF Len(text) = 0 THEN <<>>
    ELSE IF \E i \in 1..Len(text) : CharAt(text, i) = "\n"
    THEN LET i == CHOOSE j \in 1..Len(text) :
                      /\ CharAt(text, j) = "\n"
                      /\ \A k \in 1..(j - 1) : CharAt(text, k) # "\n"
         IN  <<SubSeq(text, 1, i - 1)>>
                 \o SplitLines(SubSeq(text, i + 1, Len(text)))
    ELSE <<text>>

Contains(s, t) ==
    \E i \in 0..(Len(s) - Len(t)) : SubSeq(s, i + 1, i + Len(t)) = t

(* ------------------------------- Coin ---------------------------------- *)

\* Coin::price_formatted
price_formatted(coin) == "$" \o FormatFixed2(coin.current_price, FALSE)

\* Coin::change_24h_formatted
change_24h_formatted(coin) ==
    FormatFixed2(coin.price_change_24h * 100, TRUE) \o "%"

\* Coin::is_up
is_up(coin) == coin.price_change_24h > 0

\* One line of format_coins: "{:6} {:12} ${:>10.2} {:>6.2}%".
format_line(coin) ==
    PadRight(coin.symbol, 6) \o " " \o PadRight(coin.name, 12)
        \o " $" \o PadLeft(FormatFixed2(coin.current_price, FALSE), 10)
        \o " " \o PadLeft(FormatFixed2(coin.price_change_24h, FALSE), 6)
        \o "%"

format_coins(cs) == Join([i \in 1..Len(cs) |-> format_line(cs[i])], "\n")

(* --------------------------- the response ------------------------------ *)

\* The asset identifiers a response may hold as keys.
Ids == {"bitcoin", "usd-coin"}

\* A JSON member of an entry: a number, absent, or a value that is no number.
Num(v) == [kind |-> "num", val |-> v]

Missing == [kind |-> "missing", val |-> 0]

NonNumeric == [kind |-> "string", val |-> 0]

UsdFields == {Num(110003200), Num(0), Missing, NonNumeric}

ChangeFields == {Num(-500), Num(0), Num(270), Num(3333), Missing, NonNumeric}

Entries == [key : Ids, usd : UsdFields, usd_24h_change : ChangeFields]

SeqsUpTo(S, n) == UNION {[1..k -> S] : k \in 0..n}

\* A response text: malformed, or a JSON object given by its members in
\* the order of the text (a key may occur twice).
ResponseTexts ==
    {[wellformed |-> FALSE, entries |-> <<>>]}
        \cup {[wellformed |-> TRUE, entries |-> es] :
                 es \in SeqsUpTo(Entries, MaxEntries)}

\* The responses the full program is run against.
SampleTexts ==
    LET e(k, u, c) == [key |-> k, usd |-> u, usd_24h_change |-> c]
    IN  { [wellformed |-> FALSE, entries |-> <<>>],
          [wellformed |-> TRUE, entries |-> <<>>],
          [wellformed |-> TRUE,
           entries |-> <<e("bitcoin", Num(110003200), Num(-500)),
                         e("usd-coin", Num(0), Num(0))>>],
          [wellformed |-> TRUE,
           entries |-> <<e("bitcoin", Num(110003200), Num(270)),
                         e("usd-coin", Num(0), Missing)>>] }

(* ------------------------ parse_coin_response -------------------------- *)

\* #[derive(Deserialize)] CoinGeckoData: both fields required, both f64.
ValidEntry(e) == e.usd.kind = "num" /\ e.usd_24h_change.kind = "num"

CoinGeckoData(e) == [usd |-> e.usd.val, usd_24h_change |-> e.usd_24h_change.val]

\* HashMap::insert: a later value for a key replaces the earlier one.
Insert(m, k, v) == [x \in (DOMAIN m) \cup {k} |-> IF x = k THEN v ELSE m[x]]

EmptyMap == [x \in {} |-> 0]

RECURSIVE DeserializeMap_Lenient(_, _)
\* A per-entry partial-success mode: an invalid member is skipped.
DeserializeMap_Lenient(es, acc) ==
    IF Len(es) = 0 THEN [ok |-> TRUE, map |-> acc]
    ELSE IF ~ValidEntry(Head(es)) THEN DeserializeMap_Lenient(Tail(es), acc)
    ELSE DeserializeMap_Lenient(Tail(es),
                                Insert(acc, Head(es).key, CoinGeckoData(Head(es))))

RECURSIVE DeserializeMap(_, _)
\* The members are deserialized in order; the first invalid one ends the
\* call with an error.
DeserializeMap(es, acc) ==
    IF Len(es) = 0 THEN [ok |-> TRUE, map |-> acc]
    ELSE IF ~ValidEntry(Head(es)) THEN [ok |-> FALSE, map |-> EmptyMap]
    ELSE DeserializeMap(Tail(es), Insert(acc, Head(es).key, CoinGeckoData(Head(es))))

parse_coin_response(text) ==
    IF ~text.wellformed THEN [ok |-> FALSE, map |-> EmptyMap]
    ELSE DeserializeMap(text.entries, EmptyMap)

(* -------------------------- convert_to_coins --------------------------- *)

\* The symbol left as the identifier is written.
CoinOf_RawSymbol(coin_id, coin_data) ==
    [id |-> coin_id,
     symbol |-> coin_id,
     name |-> coin_id,
     current_price |-> coin_data.usd,
     price_change_24h |-> coin_data.usd_24h_change]

\* The Coin built from one (coin_id, coin_data) pair.
CoinOf(coin_id, coin_data) ==
    [id |-> coin_id,
     symbol |-> to_uppercase(coin_id),
     name |-> coin_id,
     current_price |-> coin_data.usd,
     price_change_24h |-> coin_data.usd_24h_change]

\* The orders in which a HashMap may yield its keys.
IterationOrders(m) ==
    {o \in [1..Cardinality(DOMAIN m) -> DOMAIN m] :
        \A i, j \in DOMAIN o : i # j => o[i] # o[j]}

\* convert_to_coins, for one iteration order of the map.
convert_to_coins(m, order) == [i \in DOMAIN order |-> CoinOf(order[i], m[order[i]])]

(* --------------------------------- ui ---------------------------------- *)

NoFrame == [header |-> "", body |-> "", footer |-> ""]

\* The frame ui paints: the title, the text of format_coins, the hint.
ui(cs) ==
    [header |-> "Crypto Tracker",
     body   |-> format_coins(cs),
     footer |-> "Press 'q' to quit"]

(* ------------------------------- events -------------------------------- *)

KeyEvent(c) == [kind |-> "Key", code |-> c]

ResizeEvent == [kind |-> "Resize", code |-> ""]

\* What the user may deliver: the quit key, another key, a non-key event.
Events == {KeyEvent("q"), KeyEvent("Q"), ResizeEvent}

\* Any key quits.
IsQuit_AnyKey(e) == e.kind = "Key"

\* key.code == KeyCode::Char('q')
IsQuit(e) == e.kind = "Key" /\ e.code = "q"

\* What one loop iteration saw.
Outcome(e) ==
    IF e.kind # "Key" THEN "nonkey" ELSE IF e.code = "q" THEN "quit" ELSE "otherkey"

(* -------------------------------- state -------------------------------- *)

VARIABLES
    pc,            \* where main is
    network,       \* the text the price API answers with
    rawMode,       \* the terminal is in raw mode
    altScreen,     \* the terminal shows the alternate screen
    disableCalls,  \* calls of disable_raw_mode
    leaveCalls,    \* executions of LeaveAlternateScreen
    fetchCount,    \* calls of fetch_coin_prices
    json_text,     \* refresh_output's json_text
    coin_map,      \* refresh_output's coin_map
    coins,         \* main's coins
    refreshed,     \* the list refresh_output returned, as it returned it
    frames,        \* completed terminal.draw calls
    handed,        \* the list the last ui call was given
    screen,        \* the frame last painted
    queue,         \* terminal events delivered and not yet read
    delivered,     \* events delivered so far
    outcomes,      \* what each completed loop iteration saw, in order
    timeouts,      \* polls that timed out
    polls,         \* calls of event::poll
    reads,         \* calls of event::read
    result,        \* "running", or what main returned: "Ok" or "Err"
    error,         \* the call whose error main returned, or "none"
    faults         \* the calls that reported an error

termVars == <<rawMode, altScreen, disableCalls, leaveCalls>>

dataVars == <<fetchCount, json_text, coin_map, coins, refreshed>>

viewVars == <<frames, handed, screen>>

inputVars == <<queue, delivered, outcomes, timeouts, polls, reads>>

exitVars == <<result, error, faults>>

vars == <<pc, network, termVars, dataVars, viewVars, inputVars, exitVars>>

\* The state when main is entered, but for the API's answer.
Start ==
    /\ pc = "enable_raw_mode"
    /\ rawMode = FALSE /\ altScreen = FALSE
    /\ disableCalls = 0 /\ leaveCalls = 0
    /\ fetchCount = 0
    /\ json_text = [wellformed |-> TRUE, entries |-> <<>>]
    /\ coin_map = EmptyMap
    /\ coins = <<>> /\ refreshed = <<>>
    /\ frames = 0 /\ handed = <<>> /\ screen = NoFrame
    /\ queue = <<>> /\ delivered = 0 /\ outcomes = <<>>
    /\ timeouts = 0 /\ polls = 0 /\ reads = 0
    /\ result = "running" /\ error = "none" /\ faults = {}

Init == Start /\ network \in SampleTexts

InitRefresh == Start /\ network \in ResponseTexts

(* -------------------------------- main --------------------------------- *)

\* `?` on an Err: main returns the error at once.
Return(site) ==
    /\ faults' = faults \cup {site}
    /\ pc' = "done" /\ result' = "Err" /\ error' = site

\* enable_raw_mode()?
EnableRawMode ==
    /\ pc = "enable_raw_mode"
    /\ \/ rawMode' = TRUE /\ pc' = "terminal_new" /\ UNCHANGED exitVars
       \/ Return("enable_raw_mode") /\ UNCHANGED rawMode
    /\ UNCHANGED <<network, altScreen, disableCalls, leaveCalls,
                   dataVars, viewVars, inputVars>>

\* Terminal::new(backend)?
TerminalNew ==
    /\ pc = "terminal_new"
    /\ \/ pc' = "enter_alternate_screen" /\ UNCHANGED exitVars
       \/ Return("terminal_new")
    /\ UNCHANGED <<network, termVars, dataVars, viewVars, inputVars>>

\* execute!(io::stdout(), EnterAlternateScreen)?
EnterAlternateScreen ==
    /\ pc = "enter_alternate_screen"
    /\ \/ altScreen' = TRUE /\ pc' = "fetch" /\ UNCHANGED exitVars
       \/ Return("enter_alternate_screen") /\ UNCHANGED altScreen
    /\ UNCHANGED <<network, rawMode, disableCalls, leaveCalls,
                   dataVars, viewVars, inputVars>>

\* A failed fetch falls back to a sample list and the loop is entered.
FetchCoinPrices_SampleOnError ==
    /\ pc = "fetch"
    /\ fetchCount' = fetchCount + 1
    /\ \/ /\ json_text' = network /\ pc' = "parse"
          /\ UNCHANGED <<coins, refreshed, exitVars>>
       \/ /\ faults' = faults \cup {"fetch"}
          /\ coins' = <<CoinOf("bitcoin", [usd |-> 110003200, usd_24h_change |-> -500])>>
          /\ refreshed' = coins'
          /\ pc' = "draw"
          /\ UNCHANGED <<json_text, result, error>>
    /\ UNCHANGED <<network, termVars, coin_map, viewVars, inputVars>>

\* refresh_output: fetch_coin_prices().await?
FetchCoinPrices ==
    /\ pc = "fetch"
    /\ fetchCount' = fetchCount + 1
    /\ \/ json_text' = network /\ pc' = "parse" /\ UNCHANGED exitVars
       \/ Return("fetch") /\ UNCHANGED json_text
    /\ UNCHANGED <<network, termVars, coin_map, coins, refreshed,
                   viewVars, inputVars>>

\* refresh_output: parse_coin_response(&json_text)?
ParseCoinResponse ==
    /\ pc = "parse"
    /\ LET r == parse_coin_response(json_text)
       IN  \/ r.ok /\ coin_map' = r.map /\ pc' = "convert" /\ UNCHANGED exitVars
           \/ ~r.ok /\ Return("parse") /\ UNCHANGED coin_map
    /\ UNCHANGED <<network, termVars, fetchCount, json_text, coins, refreshed,
                   viewVars, inputVars>>

\* refresh_output: Ok(convert_to_coins(coin_map)), bound to main's coins.
ConvertToCoins ==
    /\ pc = "convert"
    /\ \E order \in IterationOrders(coin_map) :
           /\ coins' = convert_to_coins(coin_map, order)
           /\ refreshed' = coins'
    /\ pc' = "draw"
    /\ UNCHANGED <<network, termVars, fetchCount, json_text, coin_map,
                   viewVars, inputVars, exitVars>>

\* terminal.draw(|frame| ui(frame, &coins))?
Draw ==
    /\ pc = "draw"
    /\ \/ /\ handed' = coins
          /\ screen' = ui(coins)
          /\ frames' = frames + 1
          /\ pc' = "poll"
          /\ UNCHANGED exitVars
       \/ Return("draw") /\ UNCHANGED viewVars
    /\ UNCHANGED <<network, termVars, dataVars, inputVars>>

\* A timed-out poll goes back to polling without a redraw.
PollEvent_SkipDraw ==
    /\ pc = "poll"
    /\ polls' = polls + 1
    /\ \/ /\ queue # <<>>
          /\ pc' = "read"
          /\ UNCHANGED <<outcomes, timeouts, exitVars>>
       \/ /\ queue = <<>>
          /\ timeouts < MaxTimeouts
          /\ timeouts' = timeouts + 1
          /\ outcomes' = Append(outcomes, "timeout")
          /\ pc' = "poll"
          /\ UNCHANGED exitVars
       \/ Return("poll") /\ UNCHANGED <<outcomes, timeouts>>
    /\ UNCHANGED <<network, termVars, dataVars, viewVars, queue, delivered, reads>>

\* The result of the poll is not tested: the read follows a timeout too.
PollEvent_ReadOnTimeout ==
    /\ pc = "poll"
    /\ polls' = polls + 1
    /\ \/ /\ queue = <<>> => timeouts < MaxTimeouts
          /\ timeouts' = IF queue = <<>> THEN timeouts + 1 ELSE timeouts
          /\ pc' = "read"
          /\ UNCHANGED <<outcomes, exitVars>>
       \/ Return("poll") /\ UNCHANGED <<outcomes, timeouts>>
    /\ UNCHANGED <<network, termVars, dataVars, viewVars, queue, delivered, reads>>

\* event::poll(100 ms)?: true when an event is available, false after the
\* wait with none.
PollEvent ==
    /\ pc = "poll"
    /\ polls' = polls + 1
    /\ \/ /\ queue # <<>>
          /\ pc' = "read"
          /\ UNCHANGED <<outcomes, timeouts, exitVars>>
       \/ /\ queue = <<>>
          /\ timeouts < MaxTimeouts
          /\ timeouts' = timeouts + 1
          /\ outcomes' = Append(outcomes, "timeout")
          /\ pc' = "draw"
          /\ UNCHANGED exitVars
       \/ Return("poll") /\ UNCHANGED <<outcomes, timeouts>>
    /\ UNCHANGED <<network, termVars, dataVars, viewVars, queue, delivered, reads>>

\* A key other than the quit key starts another refresh.
ReadEvent_RefreshOnKey ==
    /\ pc = "read"
    /\ reads' = reads + 1
    /\ \/ /\ queue # <<>>
          /\ queue' = Tail(queue)
          /\ outcomes' = Append(outcomes, Outcome(Head(queue)))
          /\ pc' = IF Head(queue) = KeyEvent("q") THEN "disable_raw_mode"
                   ELSE IF Head(queue).kind = "Key" THEN "fetch" ELSE "draw"
          /\ UNCHANGED exitVars
       \/ Return("read") /\ UNCHANGED <<queue, outcomes>>
    /\ UNCHANGED <<network, termVars, dataVars, viewVars, delivered, timeouts, polls>>

\* event::read()?, then the test for KeyCode::Char('q') and the break.
ReadEvent ==
    /\ pc = "read"
    /\ reads' = reads + 1
    /\ \/ /\ queue # <<>>
          /\ queue' = Tail(queue)
          /\ outcomes' = Append(outcomes, Outcome(Head(queue)))
          /\ pc' = IF IsQuit(Head(queue)) THEN "disable_raw_mode" ELSE "draw"
          /\ UNCHANGED exitVars
       \/ Return("read") /\ UNCHANGED <<queue, outcomes>>
    /\ UNCHANGED <<network, termVars, dataVars, viewVars, delivered, timeouts, polls>>

\* disable_raw_mode()?
DisableRawMode ==
    /\ pc = "disable_raw_mode"
    /\ disableCalls' = disableCalls + 1
    /\ \/ rawMode' = FALSE /\ pc' = "leave_alternate_screen" /\ UNCHANGED exitVars
       \/ Return("disable_raw_mode") /\ UNCHANGED rawMode
    /\ UNCHANGED <<network, altScreen, leaveCalls, dataVars, viewVars, inputVars>>

\* execute!(io::stdout(), LeaveAlternateScreen)?; Ok(())
LeaveAlternateScreen ==
    /\ pc = "leave_alternate_screen"
    /\ leaveCalls' = leaveCalls + 1
    /\ \/ /\ altScreen' = FALSE
          /\ pc' = "done" /\ result' = "Ok"
          /\ UNCHANGED <<error, faults>>
       \/ Return("leave_alternate_screen") /\ UNCHANGED altScreen
    /\ UNCHANGED <<network, rawMode, disableCalls, dataVars, viewVars, inputVars>>

\* The user (or the terminal) delivers an event while the process lives.
UserInput ==
    /\ pc # "done"
    /\ delivered < MaxEvents
    /\ \E e \in Events : queue' = Append(queue, e)
    /\ delivered' = delivered + 1
    /\ UNCHANGED <<pc, network, termVars, dataVars, viewVars,
                   outcomes, timeouts, polls, reads, exitVars>>

Startup ==
    \/ EnableRawMode
    \/ TerminalNew
    \/ EnterAlternateScreen
    \/ FetchCoinPrices
    \/ ParseCoinResponse
    \/ ConvertToCoins

Main ==
    \/ Startup
    \/ Draw
    \/ PollEvent
    \/ ReadEvent
    \/ DisableRawMode
    \/ LeaveAlternateScreen

Next == Main \/ UserInput

Spec == Init /\ [][Next]_vars

\* The process is scheduled: a step main can take is eventually taken.
FairSpec == Init /\ [][Next]_vars /\ WF_vars(Main)

\* Startup and the first frame, against every response text of the bounds.
FirstFrame ==
    /\ frames = 0
    /\ Draw

NextRefresh == Startup \/ FirstFrame

SpecRefresh == InitRefresh /\ [][NextRefresh]_vars

(* ----------------------------- properties ------------------------------ *)

\* The calls of Initializing: terminal setup, fetch, parse.
InitSites ==
    {"enable_raw_mode", "terminal_new", "enter_alternate_screen", "fetch", "parse"}

Running == {"draw", "poll", "read"}

Terminating == {"disable_raw_mode", "leave_alternate_screen"}

\* The loop has read the quit key.
QuitRead == \E i \in DOMAIN outcomes : outcomes[i] = "quit"

\* The position of the first quit key among the loop's outcomes.
FirstQuit == CHOOSE i \in DOMAIN outcomes :
                 outcomes[i] = "quit" /\ \A j \in 1..(i - 1) : outcomes[j] # "quit"

\* The terminal was acquired: raw mode was enabled.
Acquired == pc # "enable_raw_mode" /\ "enable_raw_mode" \notin faults

\* C1: whenever main has returned after the terminal was acquired, the
\* release procedure (disable raw mode, leave the alternate screen) has been
\* invoked exactly once.
C1_ReleasedOnceOnEveryExit ==
    (pc = "done" /\ Acquired) => (disableCalls = 1 /\ leaveCalls = 1)

\* C2: once a call of Initializing has reported an error, main has returned
\* that error, no frame was drawn, no input was polled or read, and no
\* record list is held or displayed.
C2_StartupErrorAborts ==
    (faults \cap InitSites # {}) =>
        /\ pc = "done" /\ result = "Err" /\ faults = {error}
        /\ frames = 0 /\ screen = NoFrame
        /\ polls = 0 /\ reads = 0 /\ outcomes = <<>>
        /\ coins = <<>>

C2_Witness ==
    pc = "done" /\ faults = {"parse"} /\ Len(network.entries) = 2 /\ Len(queue) = 1

\* C3: once the loop's outcomes hold a quit key, it is their last element,
\* at position N, exactly N frames were drawn and none is drawn afterwards
\* (main is releasing the terminal or has returned); when main has returned
\* and no call failed, the terminal is released and the result is Ok.
C3_RendersUntilQuit ==
    QuitRead =>
        /\ FirstQuit = Len(outcomes)
        /\ frames = FirstQuit
        /\ pc \in Terminating \cup {"done"}
        /\ pc = "done" => disableCalls = 1
        /\ (pc = "done" /\ faults = {}) =>
               /\ result = "Ok" /\ leaveCalls = 1
               /\ ~rawMode /\ ~altScreen

C3_Witness ==
    /\ pc = "done" /\ result = "Ok"
    /\ outcomes = <<"timeout", "otherkey", "nonkey", "quit">>
    /\ frames = 4

\* C4: when main has returned after the quit key was read, both release
\* steps were performed and main returned success.
C4_ReleaseUnconditional ==
    (pc = "done" /\ QuitRead) =>
        (disableCalls = 1 /\ leaveCalls = 1 /\ result = "Ok")

\* C5: the painted body has one line per record, in list order, and each
\* line shows the price with two decimals and the change as the signed
\* percentage change_24h_formatted gives.
C5_BodyShowsSignedPercent ==
    frames > 0 =>
        LET lines == SplitLines(screen.body)
        IN  /\ Len(lines) = Len(coins)
            /\ \A i \in DOMAIN coins :
                   /\ Contains(lines[i], FormatFixed2(coins[i].current_price, FALSE))
                   /\ Contains(lines[i], change_24h_formatted(coins[i]))

\* The keys of a response text.
KeysOf(text) == {text.entries[i].key : i \in DOMAIN text.entries}

\* The last member of a response text with key k.
LastWith(text, k) ==
    text.entries[CHOOSE i \in DOMAIN text.entries :
        /\ text.entries[i].key = k
        /\ \A j \in DOMAIN text.entries : text.entries[j].key = k => j <= i]

\* The text has a member without a numeric price or a numeric 24h change,
\* or is no JSON at all.
Invalid(text) ==
    \/ ~text.wellformed
    \/ \E i \in DOMAIN text.entries :
           \/ text.entries[i].usd.kind # "num"
           \/ text.entries[i].usd_24h_change.kind # "num"

\* parse_coin_response has been called.
ParseDone ==
    \/ pc \in {"convert"} \cup Running \cup Terminating
    \/ pc = "done" /\ faults \cap (InitSites \ {"parse"}) = {}

\* C6: once the response was parsed, an invalid response has made main
\* return the parse error with no quote and no record at all, and a valid
\* one has given exactly one quote per key, the last in the text.
C6_ParseAllOrNothing ==
    ParseDone =>
        IF Invalid(json_text)
        THEN /\ pc = "done" /\ error = "parse" /\ result = "Err"
             /\ coin_map = EmptyMap /\ coins = <<>> /\ frames = 0
        ELSE /\ error # "parse"
             /\ DOMAIN coin_map = KeysOf(json_text)
             /\ \A k \in DOMAIN coin_map :
                    /\ coin_map[k].usd = LastWith(json_text, k).usd.val
                    /\ coin_map[k].usd_24h_change
                           = LastWith(json_text, k).usd_24h_change.val

C6_Witness ==
    /\ pc = "done" /\ error = "parse"
    /\ Len(json_text.entries) = 2
    /\ json_text.entries[1].usd.kind = "num"
    /\ json_text.entries[1].usd_24h_change.kind = "num"
    /\ json_text.entries[2].usd.kind = "num"
    /\ json_text.entries[2].usd_24h_change.kind = "missing"

\* The symbol each identifier has upper-cased.
ExpectedSymbol(k) == IF k = "bitcoin" THEN "BITCOIN" ELSE "USD-COIN"

\* convert_to_coins has returned.
Converted ==
    \/ pc \in Running \cup Terminating
    \/ pc = "done" /\ faults \cap InitSites = {}

\* C7: the conversion is always possible, and its result has one record per
\* key of the quote map, with distinct ids, the id and the name the key, the
\* symbol the key upper-cased, and both numbers those of the key's quote.
C7_OneRecordPerQuote ==
    /\ pc = "convert" => ENABLED ConvertToCoins
    /\ Converted =>
           /\ Len(coins) = Cardinality(DOMAIN coin_map)
           /\ \A i, j \in DOMAIN coins : coins[i].id = coins[j].id => i = j
           /\ \A k \in DOMAIN coin_map :
                  \E i \in DOMAIN coins :
                      /\ coins[i].id = k /\ coins[i].name = k
                      /\ coins[i].symbol = ExpectedSymbol(k)
                      /\ coins[i].current_price = coin_map[k].usd
                      /\ coins[i].price_change_24h = coin_map[k].usd_24h_change

C7_Witness ==
    /\ pc = "poll" /\ Len(coins) = 2
    /\ Len(json_text.entries) = 2
    /\ coins[1].id = "usd-coin" /\ coins[1].price_change_24h = 3333

\* C8: there is never a second fetch; whenever the loop has been entered the
\* one refresh has succeeded on the API's answer, and main's list, the list
\* handed to ui and the painted body are those of that refresh.
C8_SingleRefresh ==
    /\ fetchCount <= 1
    /\ (pc \in Running \/ frames > 0) =>
           /\ fetchCount = 1
           /\ faults \cap InitSites = {}
           /\ json_text = network
           /\ coins = refreshed
    /\ frames > 0 => (handed = refreshed /\ screen = ui(refreshed))

C8_Witness ==
    /\ pc = "done" /\ result = "Ok" /\ frames = 3
    /\ Len(refreshed) = 2
    /\ outcomes = <<"otherkey", "timeout", "quit">>

\* C9: a step leaves Running for Terminating only by reading the key 'q';
\* a timeout, a non-key event and any other key lead to the next draw; and
\* while Running the terminal is held and no release step has been called.
C9_OnlyQuitLeavesRunning ==
    /\ [][ /\ (pc \in Running /\ pc' \in Terminating) =>
                  (pc = "read" /\ queue # <<>> /\ Head(queue) = KeyEvent("q")
                       /\ pc' = "disable_raw_mode")
           /\ (pc = "read" /\ reads' # reads /\ faults' = faults
                   /\ queue # <<>> /\ Head(queue) # KeyEvent("q")) => pc' = "draw"
           /\ (pc = "poll" /\ polls' # polls /\ faults' = faults
                   /\ queue = <<>>) => pc' = "draw"
           /\ (pc \in Running /\ pc' \notin Running \cup Terminating) =>
                  (pc' = "done" /\ faults' # faults)
         ]_vars
    /\ [](pc \in Running =>
              (rawMode /\ altScreen /\ disableCalls = 0 /\ leaveCalls = 0))

C9_Witness ==
    /\ pc = "draw" /\ frames = 3
    /\ outcomes = <<"timeout", "nonkey", "otherkey">>
    /\ rawMode /\ altScreen

\* C10: a frame is complete before each poll, event::read is called only
\* when an event is available, and under fair scheduling of main a queued
\* quit key leads to main returning, with Ok when no call fails.
C10_LoopProgress ==
    /\ [](pc = "poll" => frames = Len(outcomes) + 1)
    /\ [](pc = "read" => (queue # <<>> /\ polls = reads + timeouts + 1))
    /\ [][reads' # reads => (pc = "read" /\ queue # <<>>)]_vars
    /\ (\E i \in DOMAIN queue : queue[i] = KeyEvent("q"))
           ~> (pc = "done" /\ (faults = {} => (result = "Ok" /\ QuitRead)))

C10_Witness ==
    /\ pc = "done" /\ result = "Ok"
    /\ outcomes = <<"timeout", "timeout", "nonkey", "quit">>

=============================================================================
